---- MODULE Spec2Model ----
\* Model of backend/scripts/gitingest_wrapper.py: the command-line runner that
\* calls gitingest.ingest on its first argument, caps the content at
\* max_content_size characters and prints one JSON record.
\*
\* Text values are kept run-length encoded (a sequence of <<character, count>>
\* runs, no empty run, no two adjacent runs of the same character), so that
\* texts of 50,000 characters and more are ordinary values: two texts are the
\* same string exactly when their encodings are equal.
EXTENDS Integers, Sequences, FiniteSets

\* ---------------------------------------------------------------- bounds
MaxArgs == 2          \* at most this many command-line arguments after the program name
Slack == 1            \* content lengths are taken within Slack of the limit (and of 0)

Procs == {1, 2}       \* two separate invocations (processes) of the script
Urls == {"u1", "u2"}  \* repository identifiers an argument can be
Chars == {"a", "\n"}  \* characters content is built from ("\n" also starts the marker)
Messages == {"boom", ""}   \* str(e) of the errors ingest raises

\* ---------------------------------------------------------------- Python values
PyNone == [t |-> "NoneType"]
PyStr(r) == [t |-> "str", v |-> r]
Unbound == [t |-> "unbound"]      \* a local that has not been assigned yet

\* c repeated n times
Rep(c, n) == IF n = 0 THEN << >> ELSE << <<c, n>> >>

\* len(s) of a str
RECURSIVE RunsLen(_)
RunsLen(r) == IF r = << >> THEN 0 ELSE Head(r)[2] + RunsLen(Tail(r))

\* a + b on two strs
Concat(a, b) ==
    IF a = << >> THEN b
    ELSE IF b = << >> THEN a
    ELSE IF a[Len(a)][1] = b[1][1]
         THEN SubSeq(a, 1, Len(a) - 1)
              \o << <<b[1][1], a[Len(a)][2] + b[1][2]>> >>
              \o Tail(b)
         ELSE a \o b

\* s[:n] of a str, n >= 0
RECURSIVE Slice(_, _)
Slice(r, n) ==
    IF r = << >> \/ n = 0 THEN << >>
    ELSE IF Head(r)[2] <= n
         THEN << Head(r) >> \o Slice(Tail(r), n - Head(r)[2])
         ELSE << <<Head(r)[1], n>> >>

\* faulty variant of OrEmpty: the value is passed on as it is
OrEmpty_NoSubstitute(x) == x

\* x or "" (lines 36-38): None and the empty str are falsy
OrEmpty(x) == IF x = PyNone \/ x = PyStr(<< >>) THEN PyStr(<< >>) ELSE x

\* ---------------------------------------------------------------- constants of the script
max_content_size == 50000

\* "\n\n... [Content truncated for size]"
Marker ==
    << <<"\n", 2>>, <<".", 3>>, <<" ", 1>>, <<"[", 1>>, <<"C", 1>>, <<"o", 1>>,
       <<"n", 1>>, <<"t", 1>>, <<"e", 1>>, <<"n", 1>>, <<"t", 1>>, <<" ", 1>>,
       <<"t", 1>>, <<"r", 1>>, <<"u", 1>>, <<"n", 1>>, <<"c", 1>>, <<"a", 1>>,
       <<"t", 1>>, <<"e", 1>>, <<"d", 1>>, <<" ", 1>>, <<"f", 1>>, <<"o", 1>>,
       <<"r", 1>>, <<" ", 1>>, <<"s", 1>>, <<"i", 1>>, <<"z", 1>>, <<"e", 1>>,
       <<"]", 1>> >>

NoUrlMessage == "No repository URL provided"
NotInstalledMessage == "gitingest package not installed. Run: pip install gitingest"
\* what the interpreter puts in the errors it raises itself
NoModuleMessage == "No module named 'gitingest'"
NoLenMessage == "object of type 'NoneType' has no len()"

\* ---------------------------------------------------------------- exceptions
NoExc == [cls |-> "none", msg |-> ""]
Exc(c, m) == [cls |-> c, msg |-> m]

\* the base class of each exception class used here
BaseOf(c) ==
    CASE c = "ModuleNotFoundError" -> "ImportError"
      [] c = "ImportError" -> "Exception"
      [] c = "TypeError" -> "Exception"
      [] c = "RuntimeError" -> "Exception"
      [] c = "Exception" -> "BaseException"
      [] OTHER -> "object"

RECURSIVE IsSubclass(_, _)
IsSubclass(c, d) ==
    IF c = d THEN TRUE
    ELSE IF c = "object" THEN FALSE
    ELSE IsSubclass(BaseOf(c), d)

\* str(e)
StrOf(e) == e.msg

\* faulty variant of HandlerFor: the except ImportError clause is missing
HandlerFor_OnlyException(e) ==
    IF IsSubclass(e.cls, "Exception") THEN "except_Exception" ELSE "uncaught"

\* faulty variant of HandlerFor: the except Exception clause is missing
HandlerFor_NoCatchAll(e) ==
    IF IsSubclass(e.cls, "ImportError") THEN "except_ImportError" ELSE "uncaught"

\* the except clause of the try statement (lines 23-55) that takes exception e
HandlerFor(e) ==
    IF IsSubclass(e.cls, "ImportError") THEN "except_ImportError"
    ELSE IF IsSubclass(e.cls, "Exception") THEN "except_Exception"
    ELSE "uncaught"

\* ---------------------------------------------------------------- the ingest capability
Texts == {PyNone, PyStr(<< >>), PyStr(Rep("s", 1))}

Lengths == (0 .. Slack) \cup ((max_content_size - Slack) .. (max_content_size + Slack))

ContentStrs ==
    { PyStr(Concat(Rep(c1, n1), Rep(c2, n2))) :
        c1 \in Chars, c2 \in Chars,
        n1 \in {n \in Lengths : n = 0 \/ n > Slack}, n2 \in 0 .. Slack }

Contents == {PyNone} \cup ContentStrs

\* the classes of the errors ingest raises
IngestErrors == {"ImportError", "RuntimeError"}

Outcomes ==
    [kind : {"return"}, summary : Texts, tree : Texts, content : Contents]
    \cup { [kind |-> "raise", exc |-> Exc(c, m)] : c \in IngestErrors, m \in Messages }

RECURSIVE SeqsUpTo(_, _)
SeqsUpTo(S, n) ==
    IF n = 0 THEN { << >> }
    ELSE LET P == SeqsUpTo(S, n - 1)
         IN  P \cup { Append(s, x) : s \in {q \in P : Len(q) = n - 1}, x \in S }

\* ---------------------------------------------------------------- state
VARIABLES
    argv,         \* sys.argv: the program name, then the arguments
    installed,    \* whether the gitingest package can be imported
    capability,   \* what ingest does for each identifier it has been called with
    pc,           \* where each invocation is
    repo_url, summary, tree, content,  \* the locals of main
    exc,          \* the exception being handled
    stdout,       \* the lines printed, each the object json.dumps was given
    exit_status,  \* the exit status of the process, -1 while it runs
    calls         \* the arguments ingest was called with

vars == <<argv, installed, capability, pc, repo_url, summary, tree, content,
          exc, stdout, exit_status, calls>>

env == <<argv, installed>>

Init ==
    /\ argv \in { <<"gitingest_wrapper.py">> \o a : a \in SeqsUpTo(Urls, MaxArgs) }
    /\ installed \in BOOLEAN
    /\ capability = << >>
    /\ pc = [i \in Procs |-> "main"]
    /\ repo_url = [i \in Procs |-> ""]
    /\ summary = [i \in Procs |-> Unbound]
    /\ tree = [i \in Procs |-> Unbound]
    /\ content = [i \in Procs |-> Unbound]
    /\ exc = [i \in Procs |-> NoExc]
    /\ stdout = [i \in Procs |-> << >>]
    /\ exit_status = [i \in Procs |-> -1]
    /\ calls = [i \in Procs |-> << >>]

\* print(json.dumps(d))
PrintLine(i, d) == stdout' = [stdout EXCEPT ![i] = Append(@, d)]

\* sys.exit(n), or the interpreter ending the process with status n
Exit(i, n) == exit_status' = [exit_status EXCEPT ![i] = n]

Failure(m) == [success |-> FALSE, error |-> m]

\* raise e inside the try statement: control goes to the except clause that
\* takes e; with none, the interpreter prints a traceback and exits with 1
Raise(i, e) ==
    /\ exc' = [exc EXCEPT ![i] = e]
    /\ pc' = [pc EXCEPT ![i] = HandlerFor(e)]
    /\ exit_status' = IF HandlerFor(e) = "uncaught"
                      THEN [exit_status EXCEPT ![i] = 1]
                      ELSE exit_status

\* faulty variant of NoUrl: the program name is not counted
NoUrl_OffByOne(a) == Len(a) < 1

\* len(sys.argv) < 2 (line 14)
NoUrl(a) == Len(a) < 2

\* lines 14-21: the usage check, then repo_url = sys.argv[1]
CheckArgv(i) ==
    /\ pc[i] = "main"
    /\ IF NoUrl(argv)
       THEN /\ PrintLine(i, Failure(NoUrlMessage))
            /\ Exit(i, 1)
            /\ pc' = [pc EXCEPT ![i] = "exited"]
            /\ UNCHANGED repo_url
       ELSE IF Len(argv) >= 2
            THEN /\ repo_url' = [repo_url EXCEPT ![i] = argv[2]]
                 /\ pc' = [pc EXCEPT ![i] = "import"]
                 /\ UNCHANGED <<stdout, exit_status>>
            ELSE \* IndexError outside the try statement
                 /\ pc' = [pc EXCEPT ![i] = "uncaught"]
                 /\ Exit(i, 1)
                 /\ UNCHANGED <<repo_url, stdout>>
    /\ UNCHANGED <<env, capability, summary, tree, content, exc, calls>>

\* line 24: from gitingest import ingest
ImportIngest(i) ==
    /\ pc[i] = "import"
    /\ IF installed
       THEN /\ pc' = [pc EXCEPT ![i] = "call"]
            /\ UNCHANGED <<exc, exit_status>>
       ELSE Raise(i, Exc("ModuleNotFoundError", NoModuleMessage))
    /\ UNCHANGED <<env, capability, repo_url, summary, tree, content, stdout, calls>>

\* ingest(url): the capability is deterministic; what it does for an
\* identifier is fixed the first time it is called with it
ingest(url, o) ==
    /\ o \in Outcomes
    /\ url \in DOMAIN capability => o = capability[url]
    /\ capability' = [u \in DOMAIN capability \cup {url} |->
                         IF u = url THEN o ELSE capability[u]]

\* line 27: summary, tree, content = ingest(repo_url)
CallIngest(i) ==
    /\ pc[i] = "call"
    /\ calls' = [calls EXCEPT ![i] = Append(@, repo_url[i])]
    /\ \E o \in Outcomes :
          /\ ingest(repo_url[i], o)
          /\ IF o.kind = "return"
             THEN /\ summary' = [summary EXCEPT ![i] = o.summary]
                  /\ tree' = [tree EXCEPT ![i] = o.tree]
                  /\ content' = [content EXCEPT ![i] = o.content]
                  /\ pc' = [pc EXCEPT ![i] = "limit"]
                  /\ UNCHANGED <<exc, exit_status>>
             ELSE /\ Raise(i, o.exc)
                  /\ UNCHANGED <<summary, tree, content>>
    /\ UNCHANGED <<env, repo_url, stdout>>

\* faulty variant of TooLong: content of exactly the limit is truncated too
TooLong_AtLimit(c) == RunsLen(c.v) >= max_content_size

\* len(content) > max_content_size (line 31)
TooLong(c) == RunsLen(c.v) > max_content_size

\* faulty variant of Truncated: the slice is one character short
Truncated_OneShort(c) == PyStr(Concat(Slice(c.v, max_content_size - 1), Marker))

\* content[:max_content_size] + "\n\n... [Content truncated for size]" (line 32)
Truncated(c) == PyStr(Concat(Slice(c.v, max_content_size), Marker))

\* lines 30-32: the size limit; len(None) raises TypeError
LimitContent(i) ==
    /\ pc[i] = "limit"
    /\ IF content[i] = PyNone
       THEN /\ Raise(i, Exc("TypeError", NoLenMessage))
            /\ UNCHANGED content
       ELSE /\ content' = [content EXCEPT ![i] =
                             IF TooLong(@) THEN Truncated(@) ELSE @]
            /\ pc' = [pc EXCEPT ![i] = "emit"]
            /\ UNCHANGED <<exc, exit_status>>
    /\ UNCHANGED <<env, capability, repo_url, summary, tree, stdout, calls>>

\* faulty variant of result: the content is replaced once any invocation has
\* printed, as with a cache shared between invocations
result_SharedCache(s, t, c) ==
    [success |-> TRUE, summary |-> OrEmpty(s), tree |-> OrEmpty(t),
     content |-> IF \E j \in DOMAIN stdout : stdout[j] # << >>
                 THEN PyStr(Rep("c", 1)) ELSE OrEmpty(c)]

\* lines 34-39: the success record
result(s, t, c) ==
    [success |-> TRUE, summary |-> OrEmpty(s), tree |-> OrEmpty(t),
     content |-> OrEmpty(c)]

\* lines 34-41, then main returns and the process ends with status 0
EmitResult(i) ==
    /\ pc[i] = "emit"
    /\ PrintLine(i, result(summary[i], tree[i], content[i]))
    /\ Exit(i, 0)
    /\ pc' = [pc EXCEPT ![i] = "exited"]
    /\ UNCHANGED <<env, capability, repo_url, summary, tree, content, exc, calls>>

\* faulty variant of HandlerExit: sys.exit(1) is missing and main returns
HandlerExit_FallThrough(i) == Exit(i, 0)

\* sys.exit(1) of an except clause (lines 48 and 55)
HandlerExit(i) == Exit(i, 1)

\* lines 43-48: except ImportError
ExceptImportError(i) ==
    /\ pc[i] = "except_ImportError"
    /\ PrintLine(i, Failure(NotInstalledMessage))
    /\ HandlerExit(i)
    /\ pc' = [pc EXCEPT ![i] = "exited"]
    /\ UNCHANGED <<env, capability, repo_url, summary, tree, content, exc, calls>>

\* lines 50-55: except Exception as e
ExceptException(i) ==
    /\ pc[i] = "except_Exception"
    /\ PrintLine(i, Failure(StrOf(exc[i])))
    /\ HandlerExit(i)
    /\ pc' = [pc EXCEPT ![i] = "exited"]
    /\ UNCHANGED <<env, capability, repo_url, summary, tree, content, exc, calls>>

\* one step of invocation i of main (lines 13-55)
main(i) ==
    \/ CheckArgv(i)
    \/ ImportIngest(i)
    \/ CallIngest(i)
    \/ LimitContent(i)
    \/ EmitResult(i)
    \/ ExceptImportError(i)
    \/ ExceptException(i)

\* one invocation of the script
Next == main(1)
Spec == Init /\ [][Next]_vars

\* two invocations with the same arguments in the same environment, in parallel
NextPair == \E i \in Procs : main(i)
SpecPair == Init /\ [][NextPair]_vars

Terminated(i) == pc[i] \in {"exited", "uncaught"}

\* ---------------------------------------------------------------- vocabulary of the properties
\* ingest has been called by invocation i
Called(i) == calls[i] # << >>

\* what ingest did for invocation i
Outcome(i) == capability[repo_url[i]]

\* a successful ingestion: ingest returned a triple to invocation i
Returned(i) == Called(i) /\ Outcome(i).kind = "return"

\* ingest raised an error in invocation i
Raised(i) == Called(i) /\ Outcome(i).kind = "raise"

IsSuccessRecord(r) ==
    /\ DOMAIN r = {"success", "summary", "tree", "content"}
    /\ r.success = TRUE

IsFailureRecord(r) ==
    /\ DOMAIN r = {"success", "error"}
    /\ r.success = FALSE

PrintedSuccess(i) == Len(stdout[i]) = 1 /\ IsSuccessRecord(stdout[i][1])
PrintedFailure(i) == Len(stdout[i]) = 1 /\ IsFailureRecord(stdout[i][1])

\* the k-th character of a str, 1 <= k <= len
RECURSIVE CharAt(_, _)
CharAt(r, k) ==
    IF Head(r)[2] >= k THEN Head(r)[1] ELSE CharAt(Tail(r), k - Head(r)[2])

\* r is the encoding of a string: no empty run, no two adjacent runs alike
WellFormed(r) ==
    /\ \A k \in 1 .. Len(r) : r[k][2] > 0
    /\ \A k \in 1 .. Len(r) - 1 : r[k][1] # r[k + 1][1]

Empty == PyStr(<< >>)

\* the content the runner is to print for the content c that ingest returned
Capped(c) ==
    IF RunsLen(c.v) > max_content_size
    THEN PyStr(Concat(Slice(c.v, max_content_size), Marker))
    ELSE c

\* ---------------------------------------------------------------- C1
\* C1: whenever ingest raises an error with message M, of whatever class, the
\* runner prints exactly the failure record with error = M and exits non-zero.
C1_RaisedErrorIsReported ==
    \A i \in Procs :
        (Terminated(i) /\ Raised(i)) =>
            /\ stdout[i] = << Failure(Outcome(i).exc.msg) >>
            /\ exit_status[i] > 0

\* ---------------------------------------------------------------- C2
\* C2: whenever ingest returns a triple, each of summary, tree and content that
\* is None is the empty string in the success record; in particular a None
\* content gives a success record with content "" and exit status 0.
C2_AbsentBecomesEmpty ==
    \A i \in Procs :
        (Terminated(i) /\ Returned(i)) =>
            /\ PrintedSuccess(i)
            /\ exit_status[i] = 0
            /\ Outcome(i).summary = PyNone => stdout[i][1].summary = Empty
            /\ Outcome(i).tree = PyNone => stdout[i][1].tree = Empty
            /\ Outcome(i).content = PyNone => stdout[i][1].content = Empty

\* ---------------------------------------------------------------- C3
\* C3: when ingest returns content longer than 50,000 characters, the content
\* printed is its first 50,000 characters followed by the marker, and its
\* length is 50,000 plus the length of the marker.
C3_LongContentIsTruncated ==
    \A i \in Procs :
        (Terminated(i) /\ Returned(i) /\ Outcome(i).content # PyNone
           /\ RunsLen(Outcome(i).content.v) > max_content_size) =>
            /\ PrintedSuccess(i)
            /\ LET orig == Outcome(i).content.v
                   out == stdout[i][1].content.v
               IN  /\ stdout[i][1].content.t = "str"
                   /\ WellFormed(out)
                   /\ out = Concat(Slice(orig, max_content_size), Marker)
                   /\ RunsLen(out) = max_content_size + RunsLen(Marker)
                   /\ RunsLen(Marker) = 34
                   /\ \A k \in {1, max_content_size - 1, max_content_size} :
                          CharAt(out, k) = CharAt(orig, k)
                   /\ \A j \in 1 .. RunsLen(Marker) :
                          CharAt(out, max_content_size + j) = CharAt(Marker, j)

C3_Witness ==
    \E i \in Procs :
        /\ Terminated(i) /\ Returned(i) /\ Outcome(i).content # PyNone
        /\ RunsLen(Outcome(i).content.v) > max_content_size
        /\ PrintedSuccess(i)
        /\ RunsLen(stdout[i][1].content.v) = max_content_size + 34

\* ---------------------------------------------------------------- C4
\* C4: when ingest returns content of at most 50,000 characters (50,000 and 0
\* included), the content printed is that content, with no marker.
C4_ShortContentIsUnchanged ==
    \A i \in Procs :
        (Terminated(i) /\ Returned(i) /\ Outcome(i).content # PyNone
           /\ RunsLen(Outcome(i).content.v) <= max_content_size) =>
            /\ PrintedSuccess(i)
            /\ stdout[i][1].content = Outcome(i).content

C4_Witness ==
    \E i \in Procs :
        /\ Terminated(i) /\ Returned(i) /\ Outcome(i).content # PyNone
        /\ RunsLen(Outcome(i).content.v) = max_content_size
        /\ PrintedSuccess(i)
        /\ RunsLen(stdout[i][1].content.v) = max_content_size

\* ---------------------------------------------------------------- C5
\* C5: an invocation never has more than one record on standard output, no
\* failure leaves main uncaught, and an invocation that has terminated has
\* printed exactly one record, of the success shape or of the failure shape.
C5_ExactlyOneRecord ==
    \A i \in Procs :
        /\ Len(stdout[i]) <= 1
        /\ pc[i] # "uncaught"
        /\ Terminated(i) =>
              /\ Len(stdout[i]) = 1
              /\ IsSuccessRecord(stdout[i][1]) \/ IsFailureRecord(stdout[i][1])
              /\ ~ (IsSuccessRecord(stdout[i][1]) /\ IsFailureRecord(stdout[i][1]))

\* an invocation ended by the failure of len(None), inside the try statement
C5_Witness ==
    \E i \in Procs :
        /\ Terminated(i) /\ exc[i].cls = "TypeError"
        /\ PrintedFailure(i)

\* ---------------------------------------------------------------- C6
\* C6: at termination the exit status is 0 exactly when a success record was
\* printed and 1 exactly when a failure record was printed.
C6_ExitStatusMatchesRecord ==
    \A i \in Procs :
        Terminated(i) =>
            /\ exit_status[i] = 0 <=> PrintedSuccess(i)
            /\ exit_status[i] = 1 <=> PrintedFailure(i)

C6_Witness ==
    \E i \in Procs :
        /\ Terminated(i) /\ Raised(i)
        /\ PrintedFailure(i) /\ exit_status[i] = 1

\* ---------------------------------------------------------------- C7
\* C7: with no argument the runner prints the failure record with error
\* "No repository URL provided", exits non-zero and never calls ingest.
C7_NoArgument ==
    \A i \in Procs :
        Len(argv) = 1 =>
            /\ ~ Called(i)
            /\ Terminated(i) =>
                  /\ stdout[i] = << Failure("No repository URL provided") >>
                  /\ exit_status[i] > 0

C7_Witness ==
    \E i \in Procs :
        /\ Len(argv) = 1 /\ Terminated(i)
        /\ PrintedFailure(i) /\ exit_status[i] = 1

\* ---------------------------------------------------------------- C8
\* C8: with an argument and gitingest not installed, the runner prints the
\* failure record naming the missing package and the remedy, and exits
\* non-zero.
C8_NotInstalled ==
    \A i \in Procs :
        (Len(argv) >= 2 /\ ~ installed /\ Terminated(i)) =>
            /\ stdout[i] =
                << Failure("gitingest package not installed. Run: pip install gitingest") >>
            /\ exit_status[i] > 0

C8_Witness ==
    \E i \in Procs :
        /\ Len(argv) >= 2 /\ ~ installed /\ Terminated(i)
        /\ exc[i].cls = "ModuleNotFoundError"
        /\ PrintedFailure(i)

\* ---------------------------------------------------------------- C9
\* C9: when ingest returns a text content and a None summary or tree, the
\* field of the success record for it is the empty string, and the other
\* fields are what they are without the substitution.
C9_AbsentSummaryOrTree ==
    \A i \in Procs :
        (Terminated(i) /\ Returned(i) /\ Outcome(i).content # PyNone
           /\ (Outcome(i).summary = PyNone \/ Outcome(i).tree = PyNone)) =>
            /\ PrintedSuccess(i)
            /\ stdout[i][1].summary =
                  IF Outcome(i).summary = PyNone THEN Empty ELSE Outcome(i).summary
            /\ stdout[i][1].tree =
                  IF Outcome(i).tree = PyNone THEN Empty ELSE Outcome(i).tree
            /\ stdout[i][1].content = Capped(Outcome(i).content)

C9_Witness ==
    \E i \in Procs :
        /\ Terminated(i) /\ Returned(i) /\ Outcome(i).content # PyNone
        /\ Outcome(i).summary = PyNone /\ Outcome(i).tree # PyNone
        /\ Outcome(i).tree # Empty
        /\ PrintedSuccess(i)
        /\ stdout[i][1].summary = Empty

\* ---------------------------------------------------------------- C10
\* C10: two invocations with the same arguments and the same deterministic
\* ingest, however their steps interleave, print the same output and exit with
\* the same status, and ingest is only ever called with the first argument.
C10_SameOutput ==
    /\ \A i \in Procs : \A k \in 1 .. Len(calls[i]) : calls[i][k] = argv[2]
    /\ (Terminated(1) /\ Terminated(2)) =>
          /\ stdout[1] = stdout[2]
          /\ exit_status[1] = exit_status[2]

\* both invocations done with a success record, the arguments being two
\* different identifiers
C10_Witness ==
    /\ Terminated(1) /\ Terminated(2)
    /\ Returned(1) /\ Returned(2)
    /\ PrintedSuccess(1) /\ PrintedSuccess(2)
    /\ Len(argv) = 3 /\ argv[2] # argv[3]

====
